---- MODULE Spec2Model ----
(***************************************************************************)
(* Model of the brochure generator: the chat history kept by              *)
(* HistoryManager (ai_core.py), the URL validation and page fetch of      *)
(* Website (website.py), the link classifier's ask                        *)
(* (extractor_of_relevant_links.py) and BrochureCreator.create_brochure   *)
(* (ai-brochure-creator.py).                                              *)
(*                                                                         *)
(* Message contents, prompts and page texts are sequences of string       *)
(* tokens.  Python objects are records whose DOMAIN is the set of          *)
(* attributes the code has assigned; reading any other attribute raises   *)
(* AttributeError.  Website assigns website_url, title and text; it never *)
(* assigns links_on_page (a caller does, as extractor_of_relevant_links.py *)
(* line 70) nor fetch_failed (nobody does).  The subscript in the class    *)
(* header BrochureCreator(AICore[str]) is read as a type annotation.       *)
(*                                                                         *)
(* SpecHistory drives one HistoryManager through its public methods,      *)
(* SpecWeb constructs Website objects, Spec runs public asks and one      *)
(* create_brochure on a BrochureCreator.                                   *)
(***************************************************************************)
EXTENDS Integers, Sequences, FiniteSets, TLC

VARIABLES hist, added, reads, site, net, root, pc, stage, relevant_links,
          relevant_pages, result, answer, callLog, events

vars == <<hist, added, reads, site, net, root, pc, stage, relevant_links,
          relevant_pages, result, answer, callLog, events>>

histVars == <<hist, added, reads>>
webVars == <<site, net>>
buildVars == <<root, pc, stage, relevant_links, relevant_pages, result,
               answer, callLog, events>>

\* ------------------------------------------------------------------ bounds
MaxAdds == 3
MaxGets == 2
MaxDirectCalls == 2

\* ------------------------------------------------- HistoryManager (ai_core)
Stores == {"hm", "extractor", "creator"}

Contents == {<<"m1">>, <<"m2">>}

Msg(role, content) == [role |-> role, content |-> content]

\* the system_behavior each HistoryManager is constructed with
SystemBehavior(s) ==
    CASE s = "extractor" -> <<"You are an expert in creation of online advertisement materials.">>
      [] s = "creator" -> <<"You are an assistant that analyzes the contents of several relevant pages">>
      [] OTHER -> <<"behavior">>

SystemEntry(s) == Msg("system", SystemBehavior(s))

ChatHistoryNoInsert(h, b) ==
    IF Len(h) = 0 THEN Append(h, Msg("system", b))
    ELSE [h EXCEPT ![1].content = b]

ChatHistoryAlwaysInsert(h, b) == <<Msg("system", b)>> \o h

ChatHistoryOverwriteFirst(h, b) ==
    IF Len(h) = 0 THEN <<Msg("system", b)>>
    ELSE [h EXCEPT ![1] = Msg("system", b)]

\* the chat_history getter: the stored list after the getter has run (the
\* getter returns the stored list itself)
ChatHistory(h, b) ==
    IF Len(h) = 0 THEN Append(h, Msg("system", b))
    ELSE IF h[1].role # "system" THEN <<Msg("system", b)>> \o h
    ELSE [h EXCEPT ![1].content = b]

add_user_message(h, m) == Append(h, Msg("user", m))

add_assistant_message(h, m) == Append(h, Msg("assistant", m))

Last2(s) == IF Len(s) <= 2 THEN s ELSE SubSeq(s, Len(s) - 1, Len(s))

\* a read of chat_history on store s: the stored list is normalised and the
\* returned value is recorded
ReadStore(s) ==
    LET r == ChatHistory(hist[s], SystemBehavior(s)) IN
    /\ hist' = [hist EXCEPT ![s] = r]
    /\ reads' = [reads EXCEPT ![s] = Last2(Append(@, r))]
    /\ UNCHANGED added

HM_AddUserMessage(m) ==
    /\ Len(added["hm"]) < MaxAdds
    /\ hist' = [hist EXCEPT !["hm"] = add_user_message(@, m)]
    /\ added' = [added EXCEPT !["hm"] = Append(@, Msg("user", m))]
    /\ reads' = [reads EXCEPT !["hm"] = <<>>]
    /\ UNCHANGED <<webVars, buildVars>>

HM_AddAssistantMessage(m) ==
    /\ Len(added["hm"]) < MaxAdds
    /\ hist' = [hist EXCEPT !["hm"] = add_assistant_message(@, m)]
    /\ added' = [added EXCEPT !["hm"] = Append(@, Msg("assistant", m))]
    /\ reads' = [reads EXCEPT !["hm"] = <<>>]
    /\ UNCHANGED <<webVars, buildVars>>

HM_ChatHistory ==
    /\ ReadStore("hm")
    /\ UNCHANGED <<webVars, buildVars>>

InitHist ==
    /\ hist = [s \in Stores |-> <<>>]
    /\ added = [s \in Stores |-> <<>>]
    /\ reads = [s \in Stores |-> <<>>]

InitWebIdle ==
    /\ site = [state |-> "none"]
    /\ net = <<>>

InitBuildIdle ==
    /\ root = [state |-> "none"]
    /\ pc = "off"
    /\ stage = "none"
    /\ relevant_links = <<>>
    /\ relevant_pages = <<>>
    /\ result = [kind |-> "none"]
    /\ answer = [kind |-> "none"]
    /\ callLog = <<>>
    /\ events = <<>>

InitHistory == InitHist /\ InitWebIdle /\ InitBuildIdle

NextHistory ==
    \/ \E m \in Contents : HM_AddUserMessage(m)
    \/ \E m \in Contents : HM_AddAssistantMessage(m)
    \/ HM_ChatHistory

SpecHistory == InitHistory /\ [][NextHistory]_vars

\* ------------------------------------------------ properties of the history
SystemCount(r) == Cardinality({i \in 1..Len(r) : r[i].role = "system"})

NonSystem(r) == SelectSeq(r, LAMBDA e : e.role # "system")

\* C1: every sequence returned by a read of chat_history starts with the
\* system entry carrying the store's behavior text and holds exactly one
\* system entry, whatever adds came before (none, or a user turn first).
C1_SystemEntryFirst ==
    \A s \in Stores : \A k \in 1..Len(reads[s]) :
        LET r == reads[s][k] IN
        /\ Len(r) >= 1
        /\ r[1] = SystemEntry(s)
        /\ SystemCount(r) = 1

C1_Witness ==
    /\ Len(reads["hm"]) >= 1
    /\ LET r == reads["hm"][Len(reads["hm"])] IN
       /\ Len(r) = MaxAdds + 1
       /\ r[2].role = "user"
       /\ added["hm"][1].role = "user"

\* C2: the history is append-only: the non-system turns stored, and those
\* returned by every read, are exactly the added messages in insertion order.
C2_AppendOnly ==
    \A s \in Stores :
        /\ NonSystem(hist[s]) = added[s]
        /\ \A k \in 1..Len(reads[s]) : NonSystem(reads[s][k]) = added[s]

C2_Witness ==
    /\ Len(reads["hm"]) >= 1
    /\ Len(added["hm"]) = MaxAdds
    /\ \E i, j \in 1..Len(added["hm"]) :
          /\ added["hm"][i].role = "user"
          /\ added["hm"][j].role = "assistant"
          /\ added["hm"][i].content # added["hm"][j].content

\* C3: two consecutive reads with no add in between return sequences of the
\* same length with the same turns, each headed by the system entry, and the
\* second read holds a single system entry.
C3_ReadIdempotent ==
    \A s \in Stores :
        Len(reads[s]) = 2 =>
            LET a == reads[s][1]
                b == reads[s][2] IN
            /\ Len(a) = Len(b)
            /\ \A i \in 2..Len(a) : a[i] = b[i]
            /\ a[1] = SystemEntry(s)
            /\ b[1] = SystemEntry(s)
            /\ SystemCount(b) = 1

C3_Witness ==
    /\ Len(reads["hm"]) = 2
    /\ Len(reads["hm"][2]) >= 3

\* ------------------------------------------------------- Website (website.py)
Urls == {"", "https://example.com", "http://example.org/about",
         "https://EXAMPLE.COM/careers", "ftp://example.com", "example.com",
         "https://", "https://:8080", "http://localhost", "http://127.0.0.1",
         "http://[::1]/", "http://10.0.0.5", "http://169.254.169.254/latest",
         "http://240.0.0.1", "http://8.8.8.8", "https://example.io",
         "https://example.com.evil.io", "https://com", "https://example.com."}

\* urllib.parse.urlparse on the URLs above: scheme and hostname come back
\* lower-cased, hostname without port and brackets and split here at its
\* dots; <<>> stands for a hostname of None
urlparse(u) ==
    CASE u = "https://example.com" ->
            [scheme |-> "https", netloc |-> "example.com", hostname |-> <<"example", "com">>]
      [] u = "http://example.org/about" ->
            [scheme |-> "http", netloc |-> "example.org", hostname |-> <<"example", "org">>]
      [] u = "https://EXAMPLE.COM/careers" ->
            [scheme |-> "https", netloc |-> "EXAMPLE.COM", hostname |-> <<"example", "com">>]
      [] u = "ftp://example.com" ->
            [scheme |-> "ftp", netloc |-> "example.com", hostname |-> <<"example", "com">>]
      [] u = "example.com" ->
            [scheme |-> "", netloc |-> "", hostname |-> <<>>]
      [] u = "https://" ->
            [scheme |-> "https", netloc |-> "", hostname |-> <<>>]
      [] u = "https://:8080" ->
            [scheme |-> "https", netloc |-> ":8080", hostname |-> <<>>]
      [] u = "http://localhost" ->
            [scheme |-> "http", netloc |-> "localhost", hostname |-> <<"localhost">>]
      [] u = "http://127.0.0.1" ->
            [scheme |-> "http", netloc |-> "127.0.0.1", hostname |-> <<"127", "0", "0", "1">>]
      [] u = "http://[::1]/" ->
            [scheme |-> "http", netloc |-> "[::1]", hostname |-> <<"::1">>]
      [] u = "http://10.0.0.5" ->
            [scheme |-> "http", netloc |-> "10.0.0.5", hostname |-> <<"10", "0", "0", "5">>]
      [] u = "http://169.254.169.254/latest" ->
            [scheme |-> "http", netloc |-> "169.254.169.254", hostname |-> <<"169", "254", "169", "254">>]
      [] u = "http://240.0.0.1" ->
            [scheme |-> "http", netloc |-> "240.0.0.1", hostname |-> <<"240", "0", "0", "1">>]
      [] u = "http://8.8.8.8" ->
            [scheme |-> "http", netloc |-> "8.8.8.8", hostname |-> <<"8", "8", "8", "8">>]
      [] u = "https://example.io" ->
            [scheme |-> "https", netloc |-> "example.io", hostname |-> <<"example", "io">>]
      [] u = "https://example.com.evil.io" ->
            [scheme |-> "https", netloc |-> "example.com.evil.io", hostname |-> <<"example", "com", "evil", "io">>]
      [] u = "https://com" ->
            [scheme |-> "https", netloc |-> "com", hostname |-> <<"com">>]
      [] u = "https://example.com." ->
            [scheme |-> "https", netloc |-> "example.com.", hostname |-> <<"example", "com", "">>]
      [] OTHER ->
            [scheme |-> "", netloc |-> "", hostname |-> <<>>]

\* ipaddress.ip_address on a hostname: the flags of the address, or ValueError
ip_address(hostname) ==
    CASE hostname = <<"127", "0", "0", "1">> ->
            [valid |-> TRUE, is_loopback |-> TRUE, is_private |-> TRUE, is_link_local |-> FALSE, is_reserved |-> FALSE]
      [] hostname = <<"::1">> ->
            [valid |-> TRUE, is_loopback |-> TRUE, is_private |-> TRUE, is_link_local |-> FALSE, is_reserved |-> TRUE]
      [] hostname = <<"10", "0", "0", "5">> ->
            [valid |-> TRUE, is_loopback |-> FALSE, is_private |-> TRUE, is_link_local |-> FALSE, is_reserved |-> FALSE]
      [] hostname = <<"169", "254", "169", "254">> ->
            [valid |-> TRUE, is_loopback |-> FALSE, is_private |-> TRUE, is_link_local |-> TRUE, is_reserved |-> FALSE]
      [] hostname = <<"240", "0", "0", "1">> ->
            [valid |-> TRUE, is_loopback |-> FALSE, is_private |-> TRUE, is_link_local |-> FALSE, is_reserved |-> TRUE]
      [] hostname = <<"8", "8", "8", "8">> ->
            [valid |-> TRUE, is_loopback |-> FALSE, is_private |-> FALSE, is_link_local |-> FALSE, is_reserved |-> FALSE]
      [] OTHER ->
            [valid |-> FALSE, is_loopback |-> FALSE, is_private |-> FALSE, is_link_local |-> FALSE, is_reserved |-> FALSE]

is_local_address(hostname) ==
    IF hostname \in {<<"localhost">>, <<"127", "0", "0", "1">>, <<"::1">>} THEN TRUE
    ELSE LET ip == ip_address(hostname) IN
         IF ~ip.valid THEN FALSE
         ELSE ip.is_loopback \/ ip.is_private \/ ip.is_link_local \/ ip.is_reserved

allowed_domains == {"com", "org", "net"}

\* hostname.endswith("." + d): the last label is d and a dot precedes it
endswith(hostname, d) == Len(hostname) >= 2 /\ hostname[Len(hostname)] = d

is_allowed_domain_any_label(hostname) ==
    \E d \in allowed_domains : \E i \in 2..Len(hostname) : hostname[i] = d

is_allowed_domain(hostname) == \E d \in allowed_domains : endswith(hostname, d)

ValidateUrlNoAllowList(value) ==
    LET parsed_url == urlparse(value) IN
    IF value = "" THEN "Website URL must be provided"
    ELSE IF parsed_url.netloc = "" \/ parsed_url.scheme \notin {"http", "https"}
         THEN "Website URL must be a valid URL"
    ELSE IF parsed_url.hostname = <<>> THEN "Website URL must contain a valid hostname"
    ELSE IF is_local_address(parsed_url.hostname) THEN "Website URL must not be a local address"
    ELSE "ok"

\* the checks of the website_url setter, in order: "ok" or the ValueError text
ValidateUrl(value) ==
    LET parsed_url == urlparse(value) IN
    IF value = "" THEN "Website URL must be provided"
    ELSE IF parsed_url.netloc = "" \/ parsed_url.scheme \notin {"http", "https"}
         THEN "Website URL must be a valid URL"
    ELSE IF parsed_url.hostname = <<>> THEN "Website URL must contain a valid hostname"
    ELSE IF is_local_address(parsed_url.hostname) THEN "Website URL must not be a local address"
    ELSE IF ~is_allowed_domain(parsed_url.hostname) THEN "Website URL must be an allowed domain"
    ELSE "ok"

\* what requests.get can produce: a RequestException, or a response with a
\* status, a reason and an HTML document
Htmls == {[has_title |-> TRUE, title |-> "Acme", has_body |-> TRUE, body_text |-> <<"Hello", "World">>],
          [has_title |-> FALSE, title |-> "", has_body |-> TRUE, body_text |-> <<"Hello", "World">>],
          [has_title |-> TRUE, title |-> "Acme", has_body |-> FALSE, body_text |-> <<>>]}

NoHtml == [has_title |-> FALSE, title |-> "", has_body |-> FALSE, body_text |-> <<>>]

GetOutcomes ==
    {[kind |-> "RequestException", msg |-> "Connection refused", status_code |-> 0, reason |-> "", html |-> NoHtml]}
    \cup {[kind |-> "response", msg |-> "", status_code |-> 200, reason |-> "OK", html |-> h] : h \in Htmls}
    \cup {[kind |-> "response", msg |-> "", status_code |-> 500, reason |-> "Internal Server Error", html |-> NoHtml],
          [kind |-> "response", msg |-> "", status_code |-> 404, reason |-> "Not Found", html |-> NoHtml]}

\* requests.Response.ok
ok(response) == response.status_code < 400

StatusText(n) == CASE n = 200 -> "200" [] n = 404 -> "404" [] n = 500 -> "500" [] OTHER -> "?"

extract_text(html) == IF ~html.has_body THEN <<"No content">> ELSE html.body_text

\* __fetch_website_data: the attributes it assigns for an outcome of get
fetch_website_data(outcome) ==
    IF outcome.kind = "RequestException"
    THEN [title |-> "Error", text |-> <<outcome.msg>>]
    ELSE IF ok(outcome)
         THEN [title |-> IF outcome.html.has_title THEN outcome.html.title ELSE "No title",
               text |-> IF ~outcome.html.has_body THEN <<"No content">> ELSE extract_text(outcome.html)]
         ELSE [title |-> "Error",
               text |-> <<"Error:", StatusText(outcome.status_code), "-", outcome.reason>>]

NoObject == [none |-> TRUE]

\* Website(url): __init__ runs the setter; obj holds the attributes assigned
Website(url, outcome) ==
    LET v == ValidateUrl(url) IN
    IF v # "ok"
    THEN [raised |-> "ValueError", msg |-> v, gets |-> 0, obj |-> NoObject]
    ELSE LET d == fetch_website_data(outcome) IN
         [raised |-> "none", msg |-> "", gets |-> 1,
          obj |-> [website_url |-> url, title |-> d.title, text |-> d.text]]

HasAttr(obj, a) == a \in DOMAIN obj

\* a caller constructs a Website
NewWebsite(url, outcome) ==
    /\ Len(net) < MaxGets
    /\ LET w == Website(url, outcome) IN
       /\ site' = [state |-> "made", url |-> url, outcome |-> outcome, w |-> w]
       /\ net' = IF w.gets = 1 THEN Append(net, url) ELSE net
    /\ UNCHANGED <<histVars, buildVars>>

InitWeb == InitHist /\ InitWebIdle /\ InitBuildIdle

NextWeb == \E url \in Urls, outcome \in GetOutcomes : NewWebsite(url, outcome)

SpecWeb == InitWeb /\ [][NextWeb]_vars

\* --------------------------------------------------- properties of Website
EmptyUrls == {""}
BadSchemeUrls == {"ftp://example.com", "example.com"}
EmptyHostUrls == {"example.com", "https://", "https://:8080"}
LocalHostUrls == {"http://localhost", "http://127.0.0.1", "http://[::1]/",
                  "http://10.0.0.5", "http://169.254.169.254/latest", "http://240.0.0.1"}
NotAllowListedUrls == {"http://8.8.8.8", "https://example.io", "https://example.com.evil.io",
                       "https://com", "https://example.com."}

InvalidUrls == EmptyUrls \cup BadSchemeUrls \cup EmptyHostUrls \cup LocalHostUrls
               \cup NotAllowListedUrls

\* C4: a URL that fails validation is rejected with no GET issued for it,
\* and every GET on the network is for a URL that passes every check.
C4_RejectBeforeGet ==
    /\ site.state = "made" /\ site.url \in InvalidUrls =>
          /\ site.w.raised = "ValueError"
          /\ site.w.gets = 0
    /\ \A i \in 1..Len(net) : net[i] \notin InvalidUrls

C4_Witness ==
    /\ site.state = "made"
    /\ site.url \in NotAllowListedUrls
    /\ site.w.raised = "ValueError"
    /\ Len(net) >= 1

\* C5: a fetch problem on a valid URL gives a page flagged fetch_failed with
\* title "Error" and a diagnostic text (status code and reason for a
\* non-success status); a successful response gives fetch_failed = FALSE.
C5_FetchFailedFlag ==
    site.state = "made" /\ site.url \notin InvalidUrls =>
        /\ site.w.raised = "none"
        /\ HasAttr(site.w.obj, "fetch_failed")
        /\ IF site.outcome.kind = "RequestException"
           THEN /\ site.w.obj.fetch_failed = TRUE
                /\ site.w.obj.title = "Error"
                /\ site.w.obj.text = <<site.outcome.msg>>
           ELSE IF ~ok(site.outcome)
           THEN /\ site.w.obj.fetch_failed = TRUE
                /\ site.w.obj.title = "Error"
                /\ \E i, j \in 1..Len(site.w.obj.text) :
                      /\ site.w.obj.text[i] = StatusText(site.outcome.status_code)
                      /\ site.w.obj.text[j] = site.outcome.reason
           ELSE site.w.obj.fetch_failed = FALSE

\* what the code does hold: a fetch problem never raises and leaves title
\* "Error" and the diagnostic text, and no Website carries fetch_failed
C5_ErrorTitleOnly ==
    site.state = "made" /\ site.url \notin InvalidUrls =>
        /\ site.w.raised = "none"
        /\ ~HasAttr(site.w.obj, "fetch_failed")
        /\ (site.outcome.kind = "RequestException" \/ ~ok(site.outcome)) =>
               site.w.obj.title = "Error"

\* ------------------------- inference provider, classifier and orchestrator
Agents == {"extractor", "creator"}

Fallback == "No relevant pages found to create a brochure."

ClassifierTexts ==
    {"not json",
     "{\"pages\": []}",
     "{\"links\": []}",
     "{\"links\": [about]}",
     "{\"links\": [about, careers]}",
     "{\"links\": [about.io, careers]}",
     "{\"links\": [about, careers.io]}"}

CreatorTexts == {"Acme Corp", "company"}

AboutLink == [type |-> "about page", url |-> "http://example.org/about"]
CareersLink == [type |-> "careers page", url |-> "https://EXAMPLE.COM/careers"]
AboutIoLink == [type |-> "about page", url |-> "https://example.io"]
CareersIoLink == [type |-> "careers page", url |-> "https://example.io"]

\* json.loads on the reply texts above
loads(text) ==
    CASE text = "{\"pages\": []}" -> [ok |-> TRUE, value |-> [pages |-> <<>>]]
      [] text = "{\"links\": []}" -> [ok |-> TRUE, value |-> [links |-> <<>>]]
      [] text = "{\"links\": [about]}" -> [ok |-> TRUE, value |-> [links |-> <<AboutLink>>]]
      [] text = "{\"links\": [about, careers]}" ->
            [ok |-> TRUE, value |-> [links |-> <<AboutLink, CareersLink>>]]
      [] text = "{\"links\": [about.io, careers]}" ->
            [ok |-> TRUE, value |-> [links |-> <<AboutIoLink, CareersLink>>]]
      [] text = "{\"links\": [about, careers.io]}" ->
            [ok |-> TRUE, value |-> [links |-> <<AboutLink, CareersIoLink>>]]
      [] OTHER -> [ok |-> FALSE, value |-> [none |-> TRUE]]

\* the Response object as stored in an assistant turn
ResponseContent(text) == <<"Response", text>>

LinksOnPageValues == {<<>>, <<"/about">>, <<"/about", "/careers">>}

get_links_user_prompt(website) ==
    <<"Here is a list of links found on the website of", website.website_url,
      "Links (some might be relative links):">>
    \o (IF website.links_on_page # <<>> THEN website.links_on_page
        ELSE <<"No links found.">>)

PageSection(p) == <<p.type, "Title:", p.page.title, "Text:">> \o p.page.text

RECURSIVE PageSections(_)
PageSections(pages) ==
    IF pages = <<>> THEN <<>>
    ELSE (IF ~pages[1].page.fetch_failed THEN PageSection(pages[1]) ELSE <<>>)
         \o PageSections(Tail(pages))

\* reading page.fetch_failed succeeds only when the attribute was assigned
FetchFailedReadable(page) == HasAttr(page, "fetch_failed")

\* _form_brochure_prompt: the loop reads fetch_failed of every page
form_brochure_prompt(website, pages) ==
    IF \E i \in 1..Len(pages) : ~FetchFailedReadable(pages[i].page)
    THEN [raised |-> "AttributeError", prompt |-> <<>>]
    ELSE [raised |-> "none",
          prompt |-> <<"Main page:", "Title:", website.title, "Text:">>
                     \o website.text \o PageSections(pages)]

infer_company_name_prompt(brochure_prompt_part) ==
    <<"Infer the name of the company or the full name of the owner of this website">>
    \o brochure_prompt_part \o <<"Respond only with the name.">>

infer_status_prompt(inferred_name) ==
    <<"Infer the current status of the entity by the provided name", "Entity:",
      inferred_name, "Respond only with the status of said entity.">>

form_full_prompt(website, inferred_company_name, inferred_status) ==
    <<"You are looking at a", inferred_status, "called", inferred_company_name,
      "to whom website", website.website_url, "belongs.",
      "Build a short brochure about the", inferred_status,
      "Your response must be in a Markdown format.">>

\* events carry the index n of the inference call they belong to (0: none)
Ev(e, a, n) == [e |-> e, a |-> a, n |-> n]

Returned(v) == [kind |-> "returned", value |-> v]
Raised(x) == [kind |-> "raised", value |-> x]

PropagateAsFallback(exc) == Returned(Fallback)

\* neither create_brochure nor ask catches anything: an exception raised
\* below them is the outcome of the operation
Propagate(exc) == Raised(exc)

LastCall == callLog[Len(callLog)]

DirectStages == {"direct", "direct_after"}

DirectCalls == {i \in 1..Len(callLog) : callLog[i].stage \in DirectStages}

AskRequestNoHistory(a, h, stg, question) ==
    [agent |-> a, stage |-> stg, prompt |-> question,
     instructions |-> SystemBehavior(a),
     input |-> <<Msg("system", SystemBehavior(a)), Msg("user", question)>>,
     stored |-> ChatHistory(add_user_message(h, question), SystemBehavior(a)),
     status |-> "pending", reply |-> "", raised |-> "none"]

\* the first half of ask, on the stored list h of agent a: the user turn is
\* appended and chat_history is read to build the request (input is what is
\* sent, stored is the list the agent keeps)
AskRequest(a, h, stg, question) ==
    LET sent == ChatHistory(add_user_message(h, question), SystemBehavior(a)) IN
    [agent |-> a, stage |-> stg, prompt |-> question,
     instructions |-> SystemBehavior(a), input |-> sent, stored |-> sent,
     status |-> "pending", reply |-> "", raised |-> "none"]

SendEvents(a, n) == <<Ev("add_user_message", a, n), Ev("invoke", a, n)>>

\* the state change of a request c issued by agent c.agent
Issue(c, log, addedNow, ev) ==
    /\ hist' = [hist EXCEPT ![c.agent] = c.stored]
    /\ added' = [addedNow EXCEPT ![c.agent] = Append(@, Msg("user", c.prompt))]
    /\ reads' = [reads EXCEPT ![c.agent] = <<c.input>>]
    /\ callLog' = Append(log, c)
    /\ events' = ev \o SendEvents(c.agent, Len(log) + 1)
    /\ stage' = c.stage
    /\ pc' = "calling"

ExtractorAskTailParseFirst(h, text) ==
    LET parsed == loads(text) IN
    IF parsed.ok
    THEN [h |-> add_assistant_message(h, ResponseContent(text)),
          appended |-> <<Msg("assistant", ResponseContent(text))>>,
          ev |-> <<"loads", "add_assistant_message">>, parsed |-> parsed]
    ELSE [h |-> h, appended |-> <<>>, ev |-> <<"loads">>, parsed |-> parsed]

\* the second half of ExtractorOfRelevantLinks.ask once responses.create has
\* returned: the Response is appended, then output_text is parsed
ExtractorAskTail(h, text) ==
    [h |-> add_assistant_message(h, ResponseContent(text)),
     appended |-> <<Msg("assistant", ResponseContent(text))>>,
     ev |-> <<"add_assistant_message", "loads">>,
     parsed |-> loads(text)]

\* the second half of BrochureCreator.ask: the Response is appended and
\* output_text returned
CreatorAskTail(h, text) ==
    [h |-> add_assistant_message(h, ResponseContent(text)),
     appended |-> <<Msg("assistant", ResponseContent(text))>>,
     ev |-> <<"add_assistant_message">>,
     value |-> text]

TagEvents(tags, a, n) == [i \in 1..Len(tags) |-> Ev(tags[i], a, n)]

\* a caller assigns website.links_on_page
SetLinksOnPage(l) ==
    /\ pc = "idle"
    /\ ~HasAttr(root, "links_on_page")
    /\ root' = [x \in DOMAIN root \cup {"links_on_page"} |->
                   IF x = "links_on_page" THEN l ELSE root[x]]
    /\ UNCHANGED <<histVars, webVars, pc, stage, relevant_links, relevant_pages,
                   result, answer, callLog, events>>

\* a caller invokes agent.ask(question), before or after the build
PublicAsk(a, question) ==
    /\ pc \in {"idle", "done"}
    /\ Cardinality(DirectCalls) < MaxDirectCalls
    /\ LET c == AskRequest(a, hist[a], IF pc = "idle" THEN "direct" ELSE "direct_after",
                           question) IN
       Issue(c, callLog, added, events)
    /\ answer' = [kind |-> "none"]
    /\ UNCHANGED <<webVars, root, relevant_links, relevant_pages, result>>

\* create_brochure up to the classifier's request: _get_relevant_pages,
\* extract_relevant_links, get_links_user_prompt, ask
CreateBrochure ==
    /\ pc = "idle"
    /\ IF ~HasAttr(root, "links_on_page")
       THEN /\ result' = Propagate("AttributeError")
            /\ pc' = "done"
            /\ UNCHANGED <<histVars, callLog, stage, events>>
       ELSE /\ Issue(AskRequest("extractor", hist["extractor"], "classify",
                                get_links_user_prompt(root)),
                     callLog, added, events)
            /\ result' = [kind |-> "none"]
    /\ UNCHANGED <<webVars, root, relevant_links, relevant_pages, answer>>

AfterClassifyNoFallback(value) ==
    IF ~HasAttr(value, "links")
    THEN /\ result' = Propagate("KeyError")
         /\ pc' = "done"
         /\ relevant_links' = <<>>
    ELSE /\ relevant_links' = value.links
         /\ result' = [kind |-> "none"]
         /\ pc' = IF value.links = <<>> THEN "forming" ELSE "fetching"

\* the continuation of create_brochure after the classifier's reply parsed to
\* value: ["links"], then the fallback when there is no link to fetch
AfterClassify(value) ==
    IF ~HasAttr(value, "links")
    THEN /\ result' = Propagate("KeyError")
         /\ pc' = "done"
         /\ relevant_links' = <<>>
    ELSE /\ relevant_links' = value.links
         /\ IF value.links = <<>>
            THEN /\ result' = Returned(Fallback)
                 /\ pc' = "done"
            ELSE /\ result' = [kind |-> "none"]
                 /\ pc' = "fetching"

\* the stage create_brochure moves to after a reply to stage stg
NextStage(stg) == CASE stg = "name" -> "status" [] stg = "status" -> "final" [] OTHER -> "none"

NameCall == CHOOSE i \in 1..Len(callLog) : callLog[i].stage = "name"

\* the question create_brochure asks next: _infer_status(name), then
\* _form_full_prompt(name, status)
NextQuestion(stg, text) ==
    IF stg = "name" THEN infer_status_prompt(text)
    ELSE form_full_prompt(root, callLog[NameCall].reply, text)

\* where a public ask leaves the caller
Resume(stg) == IF stg = "direct" THEN "idle" ELSE "done"

\* responses.create raises: the exception leaves ask, and create_brochure
AskRaises ==
    /\ pc = "calling"
    /\ callLog' = [callLog EXCEPT ![Len(callLog)].status = "failed",
                                  ![Len(callLog)].raised = "InferenceError"]
    /\ IF stage \in DirectStages
       THEN /\ answer' = Propagate("InferenceError")
            /\ pc' = Resume(stage)
            /\ UNCHANGED result
       ELSE /\ result' = Propagate("InferenceError")
            /\ pc' = "done"
            /\ UNCHANGED answer
    /\ stage' = "none"
    /\ UNCHANGED <<histVars, webVars, root, relevant_links, relevant_pages, events>>

\* responses.create returns to ExtractorOfRelevantLinks.ask; in a build
\* _get_relevant_pages goes on with the parsed value
ExtractorAskReturns(text) ==
    /\ pc = "calling"
    /\ LastCall.agent = "extractor"
    /\ LET n == Len(callLog)
           t == ExtractorAskTail(hist["extractor"], text) IN
       /\ hist' = [hist EXCEPT !["extractor"] = t.h]
       /\ added' = [added EXCEPT !["extractor"] = @ \o t.appended]
       /\ reads' = [reads EXCEPT !["extractor"] = <<>>]
       /\ events' = events \o TagEvents(t.ev, "extractor", n)
       /\ callLog' = [callLog EXCEPT ![n].status = "ok", ![n].reply = text,
                         ![n].raised = IF t.parsed.ok THEN "none" ELSE "JSONDecodeError"]
       /\ stage' = "none"
       /\ IF stage \in DirectStages
          THEN /\ answer' = IF t.parsed.ok THEN Returned(text)
                            ELSE Propagate("JSONDecodeError")
               /\ pc' = Resume(stage)
               /\ UNCHANGED <<result, relevant_links>>
          ELSE /\ UNCHANGED answer
               /\ IF ~t.parsed.ok
                  THEN /\ result' = Propagate("JSONDecodeError")
                       /\ pc' = "done"
                       /\ UNCHANGED relevant_links
                  ELSE AfterClassify(t.parsed.value)
    /\ UNCHANGED <<webVars, root, relevant_pages>>

\* responses.create returns to BrochureCreator.ask; in a build
\* create_brochure goes on to its next request or returns the final text
CreatorAskReturns(text) ==
    /\ pc = "calling"
    /\ LastCall.agent = "creator"
    /\ LET n == Len(callLog)
           t == CreatorAskTail(hist["creator"], text)
           log1 == [callLog EXCEPT ![n].status = "ok", ![n].reply = text]
           added1 == [added EXCEPT !["creator"] = @ \o t.appended]
           ev1 == events \o TagEvents(t.ev, "creator", n) IN
       IF stage \in DirectStages \cup {"final"}
       THEN /\ hist' = [hist EXCEPT !["creator"] = t.h]
            /\ added' = added1
            /\ reads' = [reads EXCEPT !["creator"] = <<>>]
            /\ callLog' = log1
            /\ events' = ev1
            /\ stage' = "none"
            /\ IF stage = "final"
               THEN /\ result' = Returned(t.value)
                    /\ pc' = "done"
                    /\ UNCHANGED answer
               ELSE /\ answer' = Returned(t.value)
                    /\ pc' = Resume(stage)
                    /\ UNCHANGED result
       ELSE /\ Issue(AskRequest("creator", t.h, NextStage(stage),
                                NextQuestion(stage, t.value)),
                     log1, added1, ev1)
            /\ UNCHANGED <<result, answer>>
    /\ UNCHANGED <<webVars, root, relevant_links, relevant_pages>>

\* one iteration of the loop of _get_relevant_pages:
\* Website(relevant_link["url"]); outcome is kept beside the page to tell
\* how its GET ended
FetchRelevantPage(outcome) ==
    /\ pc = "fetching"
    /\ LET link == relevant_links[Len(relevant_pages) + 1]
           w == Website(link.url, outcome) IN
       /\ net' = IF w.gets = 1 THEN Append(net, link.url) ELSE net
       /\ events' = IF w.gets = 1 THEN Append(events, Ev("get", link.url, 0)) ELSE events
       /\ IF w.raised # "none"
          THEN /\ result' = Propagate(w.raised)
               /\ pc' = "done"
               /\ UNCHANGED relevant_pages
          ELSE /\ relevant_pages' = Append(relevant_pages,
                      [type |-> link.type, page |-> w.obj, outcome |-> outcome])
               /\ pc' = IF Len(relevant_pages) + 1 = Len(relevant_links)
                        THEN "forming" ELSE "fetching"
               /\ UNCHANGED result
    /\ UNCHANGED <<histVars, site, root, stage, relevant_links, answer, callLog>>

\* create_brochure from _form_brochure_prompt to the request of
\* _infer_company_name
FormBrochurePrompt ==
    /\ pc = "forming"
    /\ LET f == form_brochure_prompt(root, relevant_pages) IN
       IF f.raised # "none"
       THEN /\ result' = Propagate(f.raised)
            /\ pc' = "done"
            /\ UNCHANGED <<histVars, callLog, events, stage>>
       ELSE /\ Issue(AskRequest("creator", hist["creator"], "name",
                                infer_company_name_prompt(f.prompt)),
                     callLog, added, events)
            /\ UNCHANGED result
    /\ UNCHANGED <<webVars, root, relevant_links, relevant_pages, answer>>

Questions == {<<"q1">>}

\* the outcomes of get taken for the relevant pages
PageOutcomes == {o \in GetOutcomes : o.kind = "RequestException" \/ o.status_code = 500
                                      \/ (o.html.has_title /\ o.html.has_body)}

RootOutcomes ==
    {[kind |-> "RequestException", msg |-> "Connection refused", status_code |-> 0, reason |-> "", html |-> NoHtml],
     [kind |-> "response", msg |-> "", status_code |-> 200, reason |-> "OK",
      html |-> [has_title |-> TRUE, title |-> "Acme", has_body |-> TRUE, body_text |-> <<"Hello", "World">>]]}

\* after construction: Website(root url), BrochureCreator(config, website)
Init ==
    /\ InitHist
    /\ InitWebIdle
    /\ \E outcome \in RootOutcomes : root = Website("https://example.com", outcome).obj
    /\ pc = "idle"
    /\ stage = "none"
    /\ relevant_links = <<>>
    /\ relevant_pages = <<>>
    /\ result = [kind |-> "none"]
    /\ answer = [kind |-> "none"]
    /\ callLog = <<>>
    /\ events = <<>>

Next ==
    \/ \E l \in LinksOnPageValues : SetLinksOnPage(l)
    \/ \E a \in Agents, q \in Questions : PublicAsk(a, q)
    \/ CreateBrochure
    \/ AskRaises
    \/ \E text \in ClassifierTexts : ExtractorAskReturns(text)
    \/ \E text \in CreatorTexts : CreatorAskReturns(text)
    \/ \E outcome \in PageOutcomes : FetchRelevantPage(outcome)
    \/ FormBrochurePrompt

Spec == Init /\ [][Next]_vars

\* --------------------------------------------------- properties of the build
BuildStages == {"classify", "name", "status", "final"}

BuildCalls == {i \in 1..Len(callLog) : callLog[i].stage \in BuildStages}

ClassifyCalls == {i \in 1..Len(callLog) : callLog[i].stage = "classify"}

StageCalls(stg) == {i \in 1..Len(callLog) : callLog[i].stage = stg}

EventsOf(n) == SelectSeq(events, LAMBDA e : e.n = n)

Tags(ev) == [i \in 1..Len(ev) |-> ev[i].e]

Contains(seq, m) == \E i \in 1..Len(seq) : seq[i] = m

UserTurn(i) == Msg("user", callLog[i].prompt)

AssistantTurn(i) == Msg("assistant", ResponseContent(callLog[i].reply))

BuildEnded == result.kind # "none"

EmptyLinksReply(i) ==
    /\ callLog[i].status = "ok"
    /\ loads(callLog[i].reply).ok
    /\ HasAttr(loads(callLog[i].reply).value, "links")
    /\ loads(callLog[i].reply).value.links = <<>>

\* C6: when the classifier returns an empty links list the build returns
\* the fallback literal, fetches no relevant page, makes no inference call
\* after the classification and puts no turn on the orchestrator's history.
C6_EmptyLinksFallback ==
    \A i \in ClassifyCalls : EmptyLinksReply(i) =>
        /\ result = Returned(Fallback)
        /\ net = <<>>
        /\ relevant_pages = <<>>
        /\ \A j \in BuildCalls : j <= i
        /\ \A k \in 1..Len(events) :
              events[k].a = "creator" => callLog[events[k].n].stage \in DirectStages
        /\ \A k \in 1..Len(events) : events[k].e # "get"

C6_Witness ==
    /\ \E i \in ClassifyCalls : EmptyLinksReply(i)
    /\ result = Returned(Fallback)
    /\ pc = "done"

FetchProblem(outcome) == outcome.kind = "RequestException" \/ ~ok(outcome)

RECURSIVE FetchedSections(_)
FetchedSections(pages) ==
    IF pages = <<>> THEN <<>>
    ELSE (IF ~FetchProblem(pages[1].outcome) THEN PageSection(pages[1]) ELSE <<>>)
         \o FetchedSections(Tail(pages))

\* C7: with at least one classified link, all of them fetched and some
\* fetch failed, the build still asks for name, status and brochure, with
\* the failed pages left out of the evidence prompt and the fetched ones
\* kept, and returns the final reply.
C7_FailedPageTolerated ==
    ( /\ BuildEnded
      /\ Len(relevant_links) >= 1
      /\ Len(relevant_pages) = Len(relevant_links)
      /\ \E i \in 1..Len(relevant_pages) : FetchProblem(relevant_pages[i].outcome)
      /\ \A n \in BuildCalls : callLog[n].status # "failed" ) =>
        /\ result.kind = "returned"
        /\ \A stg \in {"name", "status", "final"} : StageCalls(stg) # {}
        /\ \A n \in StageCalls("name") :
              callLog[n].prompt = infer_company_name_prompt(
                  <<"Main page:", "Title:", root.title, "Text:">> \o root.text
                  \o FetchedSections(relevant_pages))
        /\ \A n \in StageCalls("final") : result.value = callLog[n].reply

\* C8 as stated: the classifier's turn lies in the store the orchestrator
\* sends, and the history sent with each call holds the prompt and reply of
\* every earlier call.
C8_OneSharedStore ==
    /\ \A i \in ClassifyCalls : Contains(hist["creator"], UserTurn(i))
    /\ \A k \in 1..Len(callLog) : \A j \in 1..(k - 1) :
          /\ Contains(callLog[k].input, UserTurn(j))
          /\ callLog[j].status = "ok" => Contains(callLog[k].input, AssistantTurn(j))

\* C8 amended: each agent keeps its own store: the history sent with a call
\* holds the prompt and reply of every earlier call of the same agent, and
\* the classifier's turn is never in what the orchestrator stores or sends.
C8_PerAgentStore ==
    /\ \A k \in 1..Len(callLog) : \A j \in 1..(k - 1) :
          callLog[j].agent = callLog[k].agent =>
              /\ Contains(callLog[k].input, UserTurn(j))
              /\ callLog[j].status = "ok" => Contains(callLog[k].input, AssistantTurn(j))
    /\ \A i \in ClassifyCalls :
          /\ ~Contains(hist["creator"], UserTurn(i))
          /\ \A k \in 1..Len(callLog) :
                callLog[k].agent = "creator" => ~Contains(callLog[k].input, UserTurn(i))

C8_Witness ==
    \E i \in ClassifyCalls : \E j \in 1..(i - 1) : \E k \in (i + 1)..Len(callLog) :
        /\ callLog[i].status = "ok"
        /\ callLog[j].agent = "creator" /\ callLog[j].status = "ok"
        /\ callLog[k].agent = "creator"
        /\ Contains(callLog[k].input, AssistantTurn(j))

Malformed(n) == callLog[n].status = "ok" /\ ~loads(callLog[n].reply).ok

\* C9: in the classifier's ask the user turn is appended, inference is
\* invoked once, the reply is appended as an assistant turn and only then
\* parsed; a malformed reply raises to the caller with no second inference
\* call, and both turns stay in the history.
C9_ClassifyOrder ==
    \A n \in 1..Len(callLog) : callLog[n].agent = "extractor" =>
        /\ callLog[n].status # "ok" =>
              Tags(EventsOf(n)) = <<"add_user_message", "invoke">>
        /\ callLog[n].status = "ok" =>
              Tags(EventsOf(n)) = <<"add_user_message", "invoke",
                                    "add_assistant_message", "loads">>
        /\ Malformed(n) =>
              /\ callLog[n].raised = "JSONDecodeError"
              /\ \E i \in 1..(Len(hist["extractor"]) - 1) :
                    /\ hist["extractor"][i] = UserTurn(n)
                    /\ hist["extractor"][i + 1] = AssistantTurn(n)
              /\ callLog[n].stage = "classify" =>
                    /\ result = Raised("JSONDecodeError")
                    /\ \A m \in BuildCalls : m <= n

C9_Witness ==
    \E n \in ClassifyCalls :
        /\ Malformed(n)
        /\ result = Raised("JSONDecodeError")
        /\ Len(hist["extractor"]) >= 3

\* C10: an inference call of the build that fails ends the build with that
\* failure: no build call follows it, no stage is asked twice, and the
\* fallback is returned only for an empty links list.
C10_InferenceFailurePropagates ==
    /\ \A n \in BuildCalls : callLog[n].status = "failed" =>
          /\ result = Raised("InferenceError")
          /\ \A m \in BuildCalls : m <= n
          /\ pc # "fetching" /\ pc # "forming"
          /\ net = <<>>
    /\ \A m, n \in BuildCalls : callLog[m].stage = callLog[n].stage => m = n
    /\ result = Returned(Fallback) => \E i \in ClassifyCalls : EmptyLinksReply(i)

C10_Witness ==
    \E n \in ClassifyCalls :
        /\ callLog[n].status = "failed"
        /\ result = Raised("InferenceError")
        /\ pc = "done"

BuildEvents ==
    SelectSeq(events, LAMBDA e : IF e.n = 0 THEN TRUE
                                 ELSE callLog[e.n].stage \in BuildStages)

Shape(ev) == [i \in 1..Len(ev) |-> <<ev[i].e, ev[i].a>>]

GetShapes(links) == [i \in 1..Len(links) |-> <<"get", links[i].url>>]

ClassifyShape ==
    <<(<<"add_user_message", "extractor">>), (<<"invoke", "extractor">>),
      (<<"add_assistant_message", "extractor">>), (<<"loads", "extractor">>)>>

CreatorCallShape ==
    <<(<<"add_user_message", "creator">>), (<<"invoke", "creator">>),
      (<<"add_assistant_message", "creator">>)>>

\* a build whose classifier returned links, all of them with valid URLs, and
\* in which no inference call failed
UndisturbedBuildWithLinks ==
    /\ BuildEnded
    /\ Len(relevant_links) >= 1
    /\ \A i \in 1..Len(relevant_links) : relevant_links[i].url \notin InvalidUrls
    /\ \A n \in BuildCalls : callLog[n].status # "failed"

C11_OrderUpToFetches ==
    \A i \in ClassifyCalls :
        (callLog[i].status = "ok" /\ ~Malformed(i)) =>
            /\ Shape(BuildEvents) =
                  ClassifyShape \o SubSeq(GetShapes(relevant_links), 1, Len(net))
            /\ Len(net) = Len(relevant_pages)
            /\ \A stg \in {"name", "status", "final"} : StageCalls(stg) = {}

InvalidLinks == {i \in 1..Len(relevant_links) : relevant_links[i].url \in InvalidUrls}

FirstInvalidLink == CHOOSE i \in InvalidLinks : \A j \in InvalidLinks : i <= j

LinkUrls(k) == [i \in 1..k |-> relevant_links[i].url]

\* C12: a classified link whose URL fails validation ends the build with
\* that error: the links before it were fetched (a failed fetch among them
\* stopped nothing), the links after it are never fetched, and no name,
\* status or final call is made.
C12_InvalidUrlAborts ==
    InvalidLinks # {} =>
        /\ Len(relevant_pages) < FirstInvalidLink
        /\ net = LinkUrls(Len(relevant_pages))
        /\ pc # "forming"
        /\ \A stg \in {"name", "status", "final"} : StageCalls(stg) = {}
        /\ BuildEnded =>
              /\ result = Raised("ValueError")
              /\ Len(relevant_pages) = FirstInvalidLink - 1

C12_Witness ==
    /\ InvalidLinks # {}
    /\ FirstInvalidLink = 2
    /\ Len(relevant_pages) = 1
    /\ FetchProblem(relevant_pages[1].outcome)
    /\ result = Raised("ValueError")
    /\ pc = "done"

C12_WitnessRemainingLinks ==
    /\ InvalidLinks # {}
    /\ FirstInvalidLink = 1
    /\ Len(relevant_links) = 2
    /\ net = <<>>
    /\ result = Raised("ValueError")

====
